---- MODULE Spec2Model ----
(***************************************************************************)
(* Model of the voice analyser hook (useVoiceAnalyser), the parameter      *)
(* store (debugStore), the callers in App / DebugPanel, the render-frame   *)
(* callback of VoiceReactiveBlob and the sample coordinates of the blob    *)
(* shaders.                                                                *)
(*                                                                         *)
(* Numbers: JavaScript numbers are modelled as fixed-point integers in     *)
(* units of 1/SCALE; a product or quotient is rounded down to that         *)
(* resolution.  Resources created by the n-th startListening call (its     *)
(* MediaStream, AudioContext, source node and analyser node) are named n;  *)
(* a reference holding 0 is null.                                          *)
(***************************************************************************)
EXTENDS Integers, Sequences, FiniteSets, TLC

\* ------------------------------------------------------------------ bounds
SCALE == 10000          \* fixed-point resolution: 1.0 is SCALE units
MaxCalls == 2           \* startListening / switchMicrophone invocations
MaxTicks == 2           \* analysis ticks that read the spectrum
SettleFrames == 430     \* frames after which the smoothed shape has settled
MaxRun == 500           \* frames a settling run is followed for
RiseFrames == 60        \* frames within which the voice of a settling run falls silent
MaxPointerFrames == 150 \* frames a pointer run is followed for
MixFrames == 9          \* frames of a pointer run in which the pointer wanders
MaxFadeFrames == 30     \* frames a fade-in run is followed for
MaxFrames == 6          \* frames a run with changing voice is followed for

\* --------------------------------------------------------------- numerics
Fx(n, d) == (n * SCALE) \div d
Mul(a, b) == (a * b) \div SCALE
Div(a, b) == (a * SCALE) \div b
Min2(a, b) == IF a < b THEN a ELSE b
Max2(a, b) == IF a > b THEN a ELSE b

\* Math.max(a, b, c), DebugPanel.tsx:599
Max3Low(a, b, c) == a
Max3(a, b, c) == Max2(a, Max2(b, c))

\* Math.max(0, Math.min(1, x)) || 0, DebugPanel.tsx:596-598
Clamp01(x) == Max2(0, Min2(SCALE, x))

\* analyser.fftSize = 256, so frequencyBinCount = 128
fftSize == 256
frequencyBinCount == fftSize \div 2
Bins == 0 .. (frequencyBinCount - 1)

attack == Fx(25, 1000)
release == Fx(992, 1000)

MuteFactor == Fx(9, 10)

\* EMPTY_VOICE_DATA
EMPTY_VOICE_DATA ==
  [amplitude |-> 0, lowEnergy |-> 0, midEnergy |-> 0, highEnergy |-> 0]

\* for (let i = lo; i < hi; i++) sum += freqData[i]: the sum of the bins
\* lo .. hi-1, added up by halves
RECURSIVE BandSum(_, _, _)
BandSum(freqData, lo, hi) ==
  IF lo >= hi THEN 0
  ELSE IF hi = lo + 1 THEN freqData[lo]
  ELSE LET half == (lo + hi) \div 2
       IN BandSum(freqData, lo, half) + BandSum(freqData, half, hi)

\* raw > gate ? (raw - gate) / (1 - gate) : 0
NoiseGateNoRemap(raw, gate) ==
  IF raw > gate THEN raw - gate ELSE 0
NoiseGate(raw, gate) ==
  IF raw > gate THEN Div(raw - gate, SCALE - gate) ELSE 0

\* target > cur ? cur + (target - cur) * attack : cur * release
EnvelopeSnapsDown(cur, target) ==
  IF target > cur THEN cur + Mul(target - cur, attack) ELSE target
Envelope(cur, target) ==
  IF target > cur THEN cur + Mul(target - cur, attack) ELSE Mul(cur, release)

\* the muted branch of analyse
MuteDecayKeepsAmplitude(v) ==
  [amplitude  |-> v.amplitude,
   lowEnergy  |-> Mul(v.lowEnergy, MuteFactor),
   midEnergy  |-> Mul(v.midEnergy, MuteFactor),
   highEnergy |-> Mul(v.highEnergy, MuteFactor)]
MuteDecay(v) ==
  [amplitude  |-> Mul(v.amplitude, MuteFactor),
   lowEnergy  |-> Mul(v.lowEnergy, MuteFactor),
   midEnergy  |-> Mul(v.midEnergy, MuteFactor),
   highEnergy |-> Mul(v.highEnergy, MuteFactor)]

\* the spectrum branch of analyse
Analysed(v, freqData, store) ==
  LET bufferLength == frequencyBinCount
      bassSum == BandSum(freqData, 0, 6)
      midSum  == BandSum(freqData, 6, 50)
      highSum == BandSum(freqData, 50, bufferLength)
      rawBass0 == (bassSum * SCALE) \div (6 * 255)
      rawMid0  == (midSum * SCALE) \div (44 * 255)
      rawHigh0 == (highSum * SCALE) \div ((bufferLength - 50) * 255)
      gate == store.noiseGate
      rawBass == NoiseGate(rawBass0, gate)
      rawMid  == NoiseGate(rawMid0, gate)
      rawHigh == NoiseGate(rawHigh0, gate)
      sensitivity == store.sensitivity
      targetBass == Min2(SCALE, Mul(Mul(rawBass, sensitivity), Fx(10, 10)))
      targetMid  == Min2(SCALE, Mul(Mul(rawMid, sensitivity), Fx(12, 10)))
      targetHigh == Min2(SCALE, Mul(Mul(rawHigh, sensitivity), Fx(8, 10)))
      low  == Clamp01(Envelope(v.lowEnergy, targetBass))
      mid  == Clamp01(Envelope(v.midEnergy, targetMid))
      high == Clamp01(Envelope(v.highEnergy, targetHigh))
  IN [amplitude  |-> Max3(low, mid, high),
      lowEnergy  |-> low,
      midEnergy  |-> mid,
      highEnergy |-> high]

\* ----------------------------------------------------------------- inputs
\* spectra handed back by getByteFrequencyData: one byte per bin
Flat(a, b, c) ==
  [i \in Bins |-> IF i < 6 THEN a ELSE IF i < 50 THEN b ELSE c]
Silence == Flat(0, 0, 0)
Loud == Flat(255, 255, 255)
Voice == [i \in Bins |-> IF i < 50 THEN (5 * i) % 256 ELSE 30]
Spectra == {Silence, Voice, Loud, Flat(255, 0, 0), Flat(0, 0, 255), Flat(21, 20, 77)}

\* values of the control panel's sliders: sensitivity 0.2 .. 5, noise gate
\* 0 .. 0.3 (DebugPanel.tsx:249-283), with the defaults of the store
Sensitivities == {Fx(2, 10), Fx(3, 1), Fx(5, 1)}
NoiseGates == {0, Fx(8, 100), Fx(3, 10)}

Calls == 1 .. MaxCalls
\* handles returned by requestAnimationFrame.  A handle is only ever
\* stored in rafIdRef, and every requestAnimationFrame call overwrites
\* rafIdRef, so a handle whose callback has fired or was cancelled can be
\* handed out again without aliasing any reference still held.
RafIds == 1 .. MaxCalls

\* ------------------------------------------------------------------ state
VARIABLES
  voiceData,          \* voiceData.current
  audioContextRef,    \* 0 (null) or the context's name
  analyserRef,        \* 0 (null) or the name of the context that made it
  sourceRef,          \* 0 (null) or the source node's name
  streamRef,          \* 0 (null) or the stream's name
  rafIdRef,           \* 0 or a requestAnimationFrame handle
  frequencyDataRef,   \* FALSE (null) or TRUE (buffer allocated)
  isListening,        \* React state isListening
  debugStore,         \* the global parameter store
  tracks,             \* per stream: "none" | "live" | "ended"
  ctxState,           \* per context: "none" | "running" | "suspended" | "closed"
  srcState,           \* per source node: "none" | "connected" | "disconnected"
  scheduled,          \* per handle: 0, or the call whose loop the callback continues
  pc,                 \* per call: where startListening is suspended
  callee,             \* per call: the operation the caller invoked
  resumeCtx,          \* per call: the context whose resume() it awaits
  returned,           \* per call: what startListening returned
  toCaller,           \* per call: what the invoked operation gave its caller
  pre,                \* per call: the analyser as it was when the call was made
  firstTick,          \* per call: what the first tick of its loop found in voiceData
  mutator,            \* the call whose loop last changed voiceData since its reset
  afterStop,          \* per call: made directly after a stopListening
  ticks,              \* analysis ticks that have read the spectrum
  lastOp,             \* the operation that produced this state
  stopStreak,         \* consecutive stopListening calls just made (up to 2)
  uniforms,           \* material.uniforms: the values the frame callback changes
  mouseUniforms,      \* material.mouseUniforms: mouseHit and mouseStrength
  material,           \* material.opacity and material.transparent
  fadeIn,             \* fadeIn.current
  levelWriteCounter,  \* levelWriteCounter.current
  currentScale,       \* currentScale.current
  smoothedHit,        \* smoothedHit.current, a vector <<x, y, z>>
  smoothedStrength,   \* smoothedStrength.current
  raycastFrame,       \* raycastFrame.current
  mesh,               \* meshRef.current: its scale and rotation
  el,                 \* the #__voice_data element: present or not, its dataset.levels
  pointer,            \* what a ray through the pointer hits: nothing, or a local point
  held,               \* frames rendered since voiceData or animationSpeed changed
  missRun,            \* the run of missed pointer evaluations: its length and start
  probe               \* the arguments and result of a function applied on its own

refs == <<audioContextRef, analyserRef, sourceRef, streamRef, frequencyDataRef>>
platform == <<tracks, ctxState, srcState>>
callVars == <<pc, callee, resumeCtx, returned, toCaller, pre, afterStop>>
animation == <<uniforms, mouseUniforms, material, fadeIn, currentScale,
               smoothedHit, smoothedStrength, raycastFrame, mesh>>
animator == <<animation, levelWriteCounter, el, pointer, held, missRun>>
vars == <<voiceData, refs, rafIdRef, isListening, debugStore, platform, scheduled,
          callVars, firstTick, mutator, ticks, lastOp, stopStreak, animator, probe>>

None == [amplitude |-> -1, lowEnergy |-> -1, midEnergy |-> -1, highEnergy |-> -1]

\* debugStore.ts:6-11
StoreInit ==
  [sensitivity |-> Fx(3, 1), noiseGate |-> Fx(8, 100), animationSpeed |-> Fx(1, 1),
   isMuted |-> FALSE]

\* the analyser as a caller can observe it
Snapshot ==
  [voiceData |-> voiceData,
   streamRef |-> streamRef,
   live      |-> streamRef # 0 /\ tracks[streamRef] = "live",
   ticking   |-> \E id \in RafIds : scheduled[id] # 0,
   isListening |-> isListening]
NoSnapshot ==
  [voiceData |-> None, streamRef |-> 0, live |-> FALSE, ticking |-> FALSE,
   isListening |-> FALSE]

\* ------------------------------------------------- the animator's constants
\* BLOB_DEFAULTS: the uniforms a new BlobMaterial starts with
BLOB_DEFAULTS ==
  [time |-> 0, distort |-> Fx(6, 10), frequency |-> Fx(15, 10), speed |-> Fx(5, 10),
   surfaceDistort |-> Fx(14, 10), surfaceFrequency |-> Fx(12, 10),
   surfaceSpeed |-> Fx(4, 10), surfaceTime |-> 0]

\* IDLE and ACTIVE: the shape parameters at rest and at peak amplitude
IDLE ==
  [distort |-> BLOB_DEFAULTS.distort, speed |-> BLOB_DEFAULTS.speed,
   surfaceDistort |-> BLOB_DEFAULTS.surfaceDistort,
   surfaceSpeed |-> BLOB_DEFAULTS.surfaceSpeed]
ACTIVE ==
  [distort |-> Fx(70, 100), speed |-> Fx(58, 100), surfaceDistort |-> Fx(17, 10),
   surfaceSpeed |-> Fx(48, 100)]
SCALE_IDLE == Fx(64, 100)
SCALE_ACTIVE == Fx(96, 100)

attackRate == Fx(2, 100)
releaseRate == Fx(8, 1000)
MaxDt == Fx(1, 10)
FadeRate == Fx(7, 10)
MaxStrength == Fx(4, 10)
HitRate == Fx(12, 100)
MissFactor == Fx(92, 100)

Origin == <<0, 0, 0>>

\* the uniforms the frame callback writes, as createBlobUniforms makes them
UniformsInit ==
  [time |-> BLOB_DEFAULTS.time, distort |-> BLOB_DEFAULTS.distort,
   speed |-> BLOB_DEFAULTS.speed, surfaceDistort |-> BLOB_DEFAULTS.surfaceDistort,
   surfaceSpeed |-> BLOB_DEFAULTS.surfaceSpeed,
   surfaceTime |-> BLOB_DEFAULTS.surfaceTime]

NoProbe == [fn |-> "none"]

\* dataset.levels before anything is written (-1 stands for no entry), the
\* element as the mount effect appends it, and the document without it
NoLevels == [low |-> -1, mid |-> -1, high |-> -1]
Appended == [present |-> TRUE, levels |-> NoLevels]
Removed == [present |-> FALSE, levels |-> NoLevels]

\* raycaster.intersectObject(mesh): no hit, or the first hit in local space
Miss == [hit |-> FALSE, point |-> Origin]
HitAt(point) == [hit |-> TRUE, point |-> point]
NoRun == [n |-> 0, from |-> 0]

\* VoiceReactiveBlob once mounted: the material and the refs as constructed,
\* the effects run (the element appended, opacity 0 and transparent on), the
\* mesh attached with the scale and rotation of a new Object3D
AnimatorInit ==
  /\ uniforms = UniformsInit
  /\ mouseUniforms = [mouseHit |-> Origin, mouseStrength |-> 0]
  /\ material = [opacity |-> 0, transparent |-> TRUE]
  /\ fadeIn = 0
  /\ levelWriteCounter = 0
  /\ currentScale = SCALE_IDLE
  /\ smoothedHit = Origin
  /\ smoothedStrength = 0
  /\ raycastFrame = 0
  /\ mesh = [scale |-> SCALE, rotation |-> [x |-> 0, y |-> 0]]
  /\ el = Appended
  /\ pointer = Miss
  /\ held = [n |-> 0, v |-> EMPTY_VOICE_DATA, speed |-> StoreInit.animationSpeed]
  /\ missRun = NoRun

\* the program once the page has mounted
Mounted ==
  /\ voiceData = EMPTY_VOICE_DATA
  /\ audioContextRef = 0
  /\ analyserRef = 0
  /\ sourceRef = 0
  /\ streamRef = 0
  /\ rafIdRef = 0
  /\ frequencyDataRef = FALSE
  /\ isListening = FALSE
  /\ debugStore = StoreInit
  /\ tracks = [c \in Calls |-> "none"]
  /\ ctxState = [c \in Calls |-> "none"]
  /\ srcState = [c \in Calls |-> "none"]
  /\ scheduled = [id \in RafIds |-> 0]
  /\ pc = [c \in Calls |-> "idle"]
  /\ callee = [c \in Calls |-> "none"]
  /\ resumeCtx = [c \in Calls |-> 0]
  /\ returned = [c \in Calls |-> "pending"]
  /\ toCaller = [c \in Calls |-> "pending"]
  /\ pre = [c \in Calls |-> NoSnapshot]
  /\ firstTick = [c \in Calls |-> "none"]
  /\ mutator = 0
  /\ afterStop = [c \in Calls |-> FALSE]
  /\ ticks = 0
  /\ lastOp = [op |-> "init", call |-> 0]
  /\ stopStreak = 0
  /\ AnimatorInit

Init ==
  /\ Mounted
  /\ probe = NoProbe

\* ------------------------------------------------------- platform helpers
\* stream.getTracks().forEach((t) => t.stop())
StopTracks(tr, s) == IF s # 0 THEN [tr EXCEPT ![s] = "ended"] ELSE tr

\* cancelAnimationFrame(id): a no-op for 0 and for a handle not pending
CancelAnimationFrame(sch, id) == IF id # 0 THEN [sch EXCEPT ![id] = 0] ELSE sch

\* source.disconnect()
Disconnect(st, s) == IF s # 0 THEN [st EXCEPT ![s] = "disconnected"] ELSE st

\* the handle requestAnimationFrame returns: one that is not pending
FreshRaf(sch) == CHOOSE id \in RafIds :
  /\ sch[id] = 0
  /\ \A j \in RafIds : j < id => sch[j] # 0

\* ------------------------------------------------------------ operations
Op(name, c) == [op |-> name, call |-> c]

\* startListening up to its first await (DebugPanel.tsx:606-630): reset
\* voiceData, stop the existing stream's tracks, cancel the tick whose handle
\* is in rafIdRef, then ask for the device.  who is the operation the caller
\* invoked: startListening itself, or switchMicrophone, which forwards to it.
StartListening(c, who) ==
  /\ pc[c] = "idle"
  /\ \A b \in Calls : b < c => pc[b] # "idle"
  /\ voiceData' = EMPTY_VOICE_DATA
  /\ tracks' = StopTracks(tracks, streamRef)
  /\ scheduled' = CancelAnimationFrame(scheduled, rafIdRef)
  /\ pc' = [pc EXCEPT ![c] = "getUserMedia"]
  /\ callee' = [callee EXCEPT ![c] = who]
  /\ pre' = [pre EXCEPT ![c] = Snapshot]
  /\ afterStop' = [afterStop EXCEPT ![c] = (lastOp.op = "stopListening")]
  /\ mutator' = 0
  /\ lastOp' = Op(who, 0)
  /\ UNCHANGED <<animator, probe>>
  /\ stopStreak' = 0
  /\ UNCHANGED <<refs, rafIdRef, isListening, debugStore, ctxState, srcState,
                 resumeCtx, returned, toCaller, firstTick, ticks>>

\* what the caller of the invoked operation gets when startListening
\* returns r: startListening hands r on; switchMicrophone awaits it and
\* returns nothing (DebugPanel.tsx:682-687)
CallerGets(who, r) == IF who = "switchMicrophone" THEN "undefined" ELSE r

\* the catch block: return false (DebugPanel.tsx:674-677)
Fail(c) ==
  /\ pc' = [pc EXCEPT ![c] = "done"]
  /\ returned' = [returned EXCEPT ![c] = "false"]
  /\ toCaller' = [toCaller EXCEPT ![c] = CallerGets(callee[c], "false")]

\* getUserMedia resolves: streamRef.current = stream, then await
\* loadMicrophones() (DebugPanel.tsx:628-634)
GetUserMediaResolve(c) ==
  /\ pc[c] = "getUserMedia"
  /\ tracks' = [tracks EXCEPT ![c] = "live"]
  /\ streamRef' = c
  /\ pc' = [pc EXCEPT ![c] = "loadMicrophones"]
  /\ pre' = [pre EXCEPT ![c] = NoSnapshot]
  /\ lastOp' = Op("getUserMedia.resolve", 0)
  /\ UNCHANGED <<animator, probe>>
  /\ stopStreak' = 0
  /\ UNCHANGED <<voiceData, audioContextRef, analyserRef, sourceRef,
                 frequencyDataRef, rafIdRef, isListening, debugStore, ctxState,
                 srcState, scheduled, callee, resumeCtx, returned, toCaller,
                 afterStop, firstTick, mutator, ticks>>

\* getUserMedia rejects: the catch block returns false
GetUserMediaReject(c) ==
  /\ pc[c] = "getUserMedia"
  /\ Fail(c)
  /\ lastOp' = Op("getUserMedia.reject", c)
  /\ UNCHANGED <<animator, probe>>
  /\ stopStreak' = 0
  /\ UNCHANGED <<voiceData, refs, rafIdRef, isListening, debugStore, platform,
                 scheduled, callee, resumeCtx, pre, afterStop, firstTick, mutator,
                 ticks>>

\* the rest of startListening once the context is running
\* (DebugPanel.tsx:653-673), given the context states cs reached so far
Connect(c, cs) ==
  LET src1 == Disconnect(srcState, sourceRef)
      id == FreshRaf(scheduled)
  IN /\ ctxState' = cs
     /\ IF audioContextRef' = 0
        THEN \* audioContextRef.current is null: createMediaStreamSource throws
             /\ Fail(c)
             /\ srcState' = src1
             /\ UNCHANGED <<sourceRef, analyserRef, isListening, rafIdRef, scheduled>>
        ELSE /\ sourceRef' = c
             /\ analyserRef' = IF analyserRef = 0 THEN audioContextRef' ELSE analyserRef
             /\ IF analyserRef' # audioContextRef'
                THEN \* connect() across two contexts throws
                     /\ Fail(c)
                     /\ srcState' = [src1 EXCEPT ![c] = "disconnected"]
                     /\ UNCHANGED <<isListening, rafIdRef, scheduled>>
                ELSE /\ srcState' = [src1 EXCEPT ![c] = "connected"]
                     /\ isListening' = TRUE
                     /\ rafIdRef' = id
                     /\ scheduled' = [scheduled EXCEPT ![id] = c]
                     /\ pc' = [pc EXCEPT ![c] = "done"]
                     /\ returned' = [returned EXCEPT ![c] = "true"]
                     /\ toCaller' = [toCaller EXCEPT ![c] = CallerGets(callee[c], "true")]

\* loadMicrophones() has settled (it never rejects): make or reuse the
\* audio context; a suspended context is resumed first
\* (DebugPanel.tsx:636-651).  born is the state a new context starts in.
LoadMicrophonesDone(c, born) ==
  /\ pc[c] = "loadMicrophones"
  /\ LET fresh == audioContextRef = 0 \/ ctxState[audioContextRef] = "closed"
         ctx == IF fresh THEN c ELSE audioContextRef
         cs == IF fresh THEN [ctxState EXCEPT ![c] = born] ELSE ctxState
     IN /\ (~fresh => born = "running")
        /\ audioContextRef' = ctx
        /\ IF cs[ctx] = "suspended"
           THEN /\ pc' = [pc EXCEPT ![c] = "resume"]
                /\ resumeCtx' = [resumeCtx EXCEPT ![c] = ctx]
                /\ ctxState' = cs
                /\ UNCHANGED <<analyserRef, sourceRef, srcState, isListening,
                               rafIdRef, scheduled, returned, toCaller>>
           ELSE /\ Connect(c, cs)
                /\ UNCHANGED resumeCtx
  /\ lastOp' = Op("loadMicrophones", 0)
  /\ UNCHANGED <<animator, probe>>
  /\ stopStreak' = 0
  /\ UNCHANGED <<voiceData, streamRef, frequencyDataRef, debugStore, tracks,
                 callee, pre, afterStop, firstTick, mutator, ticks>>

\* resume() has settled (DebugPanel.tsx:649-651): it rejects when the
\* context was closed meanwhile, which the catch block turns into false
ResumeDone(c) ==
  /\ pc[c] = "resume"
  /\ IF ctxState[resumeCtx[c]] = "closed"
     THEN /\ Fail(c)
          /\ UNCHANGED <<audioContextRef, analyserRef, sourceRef, ctxState,
                         srcState, isListening, rafIdRef, scheduled>>
     ELSE /\ audioContextRef' = audioContextRef
          /\ Connect(c, [ctxState EXCEPT ![resumeCtx[c]] = "running"])
  /\ lastOp' = Op("resume", 0)
  /\ UNCHANGED <<animator, probe>>
  /\ stopStreak' = 0
  /\ UNCHANGED <<voiceData, streamRef, frequencyDataRef, debugStore, tracks,
                 callee, resumeCtx, pre, afterStop, firstTick, mutator, ticks>>

\* stopListening written without the optional chaining: it throws, and so
\* cannot be completed, when no source node exists
StopListeningUnguarded ==
  /\ sourceRef # 0
  /\ scheduled' = CancelAnimationFrame(scheduled, rafIdRef)
  /\ srcState' = Disconnect(srcState, sourceRef)
  /\ tracks' = StopTracks(tracks, streamRef)
  /\ ctxState' = IF audioContextRef # 0 /\ ctxState[audioContextRef] # "closed"
                 THEN [ctxState EXCEPT ![audioContextRef] = "closed"]
                 ELSE ctxState
  /\ audioContextRef' = 0
  /\ analyserRef' = 0
  /\ sourceRef' = 0
  /\ streamRef' = 0
  /\ frequencyDataRef' = FALSE
  /\ voiceData' = EMPTY_VOICE_DATA
  /\ isListening' = FALSE
  /\ mutator' = 0
  /\ lastOp' = Op("stopListening", 0)
  /\ UNCHANGED <<animator, probe>>
  /\ stopStreak' = IF stopStreak < 2 THEN stopStreak + 1 ELSE 2
  /\ UNCHANGED <<rafIdRef, debugStore, callVars, firstTick, ticks>>

\* stopListening that drops the stream without stopping its tracks
StopListeningKeepsTracks ==
  /\ scheduled' = CancelAnimationFrame(scheduled, rafIdRef)
  /\ srcState' = Disconnect(srcState, sourceRef)
  /\ tracks' = tracks
  /\ ctxState' = IF audioContextRef # 0 /\ ctxState[audioContextRef] # "closed"
                 THEN [ctxState EXCEPT ![audioContextRef] = "closed"]
                 ELSE ctxState
  /\ audioContextRef' = 0
  /\ analyserRef' = 0
  /\ sourceRef' = 0
  /\ streamRef' = 0
  /\ frequencyDataRef' = FALSE
  /\ voiceData' = EMPTY_VOICE_DATA
  /\ isListening' = FALSE
  /\ mutator' = 0
  /\ lastOp' = Op("stopListening", 0)
  /\ UNCHANGED <<animator, probe>>
  /\ stopStreak' = IF stopStreak < 2 THEN stopStreak + 1 ELSE 2
  /\ UNCHANGED <<rafIdRef, debugStore, callVars, firstTick, ticks>>

\* stopListening (DebugPanel.tsx:689-706)
StopListening ==
  /\ scheduled' = CancelAnimationFrame(scheduled, rafIdRef)
  /\ srcState' = Disconnect(srcState, sourceRef)
  /\ tracks' = StopTracks(tracks, streamRef)
  /\ ctxState' = IF audioContextRef # 0 /\ ctxState[audioContextRef] # "closed"
                 THEN [ctxState EXCEPT ![audioContextRef] = "closed"]
                 ELSE ctxState
  /\ audioContextRef' = 0
  /\ analyserRef' = 0
  /\ sourceRef' = 0
  /\ streamRef' = 0
  /\ frequencyDataRef' = FALSE
  /\ voiceData' = EMPTY_VOICE_DATA
  /\ isListening' = FALSE
  /\ mutator' = 0
  /\ lastOp' = Op("stopListening", 0)
  /\ UNCHANGED <<animator, probe>>
  /\ stopStreak' = IF stopStreak < 2 THEN stopStreak + 1 ELSE 2
  /\ UNCHANGED <<rafIdRef, debugStore, callVars, firstTick, ticks>>

\* analyse (DebugPanel.tsx:523-602), run for the pending handle id with
\* freqData what getByteFrequencyData would deliver
Analyse(id, freqData) ==
  /\ scheduled[id] # 0
  /\ LET loop == scheduled[id]
         fired == [scheduled EXCEPT ![id] = 0]
         next == FreshRaf(fired)
     IN /\ firstTick' = IF firstTick[loop] # "none" THEN firstTick
                        ELSE [firstTick EXCEPT ![loop] =
                               IF voiceData = EMPTY_VOICE_DATA THEN "zero"
                               ELSE IF mutator < loop THEN "earlier" ELSE "later"]
        /\ lastOp' = Op("analyse", loop)
        /\ IF analyserRef = 0 \/ audioContextRef = 0
           THEN /\ scheduled' = fired
                /\ UNCHANGED <<voiceData, frequencyDataRef, rafIdRef, ticks>>
           ELSE IF debugStore.isMuted
           THEN /\ voiceData' = MuteDecay(voiceData)
                /\ rafIdRef' = next
                /\ scheduled' = [fired EXCEPT ![next] = loop]
                /\ ticks' = IF ticks < MaxTicks THEN ticks + 1 ELSE ticks
                /\ UNCHANGED frequencyDataRef
           ELSE /\ ticks < MaxTicks
                /\ voiceData' = Analysed(voiceData, freqData, debugStore)
                /\ frequencyDataRef' = TRUE
                /\ rafIdRef' = next
                /\ scheduled' = [fired EXCEPT ![next] = loop]
                /\ ticks' = ticks + 1
        /\ mutator' = IF voiceData' # voiceData THEN loop ELSE mutator
  /\ UNCHANGED <<animator, probe>>
  /\ stopStreak' = 0
  /\ UNCHANGED <<audioContextRef, analyserRef, sourceRef, streamRef, isListening,
                 debugStore, platform, callVars>>

\* the model follows a loop for MaxTicks ticks; a tick that finds the
\* analyser gone ends its loop and is always followed
WithinRun == ticks < MaxTicks \/ analyserRef = 0 \/ audioContextRef = 0

\* the control panel writes the store (DebugPanel.tsx:84-94, App.tsx:38-42)
StoreUnchanged ==
  UNCHANGED <<voiceData, refs, rafIdRef, isListening, platform, scheduled,
              callVars, firstTick, mutator, ticks>>

handleSensitivity(val) ==
  /\ debugStore.sensitivity # val
  /\ debugStore' = [debugStore EXCEPT !.sensitivity = val]
  /\ lastOp' = Op("handleSensitivity", 0)
  /\ UNCHANGED <<animator, probe>>
  /\ stopStreak' = 0
  /\ StoreUnchanged

handleNoiseGate(val) ==
  /\ debugStore.noiseGate # val
  /\ debugStore' = [debugStore EXCEPT !.noiseGate = val]
  /\ lastOp' = Op("handleNoiseGate", 0)
  /\ UNCHANGED <<animator, probe>>
  /\ stopStreak' = 0
  /\ StoreUnchanged

handleMuteToggle ==
  /\ debugStore' = [debugStore EXCEPT !.isMuted = ~debugStore.isMuted]
  /\ lastOp' = Op("handleMuteToggle", 0)
  /\ UNCHANGED <<animator, probe>>
  /\ stopStreak' = 0
  /\ StoreUnchanged

Tick == \E id \in RafIds : \E freqData \in {Silence, Loud} :
  WithinRun /\ Analyse(id, freqData)

Next ==
  \/ \E c \in Calls : StartListening(c, "startListening")
  \/ \E c \in Calls : StartListening(c, "switchMicrophone")
  \/ \E c \in Calls : GetUserMediaResolve(c)
  \/ \E c \in Calls : GetUserMediaReject(c)
  \/ \E c \in Calls : \E born \in {"running", "suspended"} : LoadMicrophonesDone(c, born)
  \/ \E c \in Calls : ResumeDone(c)
  \/ StopListening
  \/ Tick
  \/ handleMuteToggle

Spec == Init /\ [][Next]_vars

\* one session and the control panel: every spectrum and every slider value
TickAnalyse == \E id \in RafIds : \E freqData \in Spectra :
  WithinRun /\ Analyse(id, freqData)

NextAnalyse ==
  \/ StartListening(1, "startListening")
  \/ GetUserMediaResolve(1)
  \/ \E born \in {"running", "suspended"} : LoadMicrophonesDone(1, born)
  \/ ResumeDone(1)
  \/ TickAnalyse
  \/ \E val \in Sensitivities : handleSensitivity(val)
  \/ \E val \in NoiseGates : handleNoiseGate(val)
  \/ handleMuteToggle

SpecAnalyse == Init /\ [][NextAnalyse]_vars

\* one session whose muted ticks are followed for as long as they go on;
\* the browser runs every pending animation-frame callback
TickMute == \E id \in RafIds : \E freqData \in Spectra : Analyse(id, freqData)

NextMute ==
  \/ StartListening(1, "startListening")
  \/ GetUserMediaResolve(1)
  \/ \E born \in {"running", "suspended"} : LoadMicrophonesDone(1, born)
  \/ ResumeDone(1)
  \/ TickMute
  \/ handleMuteToggle

SpecMute == Init /\ [][NextMute]_vars /\ WF_vars(TickMute)

\* one startListening call that is stopped while it awaits the device: the
\* acquisition settles only after stopListening has run, and no other start
\* is made
StoppedWhilePending(c) == pc[c] = "getUserMedia" /\ stopStreak >= 1

ResolvePending == StoppedWhilePending(1) /\ GetUserMediaResolve(1)
RejectPending == StoppedWhilePending(1) /\ GetUserMediaReject(1)

NextPending ==
  \/ StartListening(1, "startListening")
  \/ ResolvePending
  \/ RejectPending
  \/ \E born \in {"running", "suspended"} : LoadMicrophonesDone(1, born)
  \/ ResumeDone(1)
  \/ StopListening
  \/ Tick
  \/ handleMuteToggle

SpecPending == Init /\ [][NextPending]_vars

\* ----------------------------------------------------------- the animator
\* the state the frame callback reads and writes, as one record
Animator ==
  [uniforms |-> uniforms, mouseUniforms |-> mouseUniforms, material |-> material,
   fadeIn |-> fadeIn, levelWriteCounter |-> levelWriteCounter,
   currentScale |-> currentScale, smoothedHit |-> smoothedHit,
   smoothedStrength |-> smoothedStrength, raycastFrame |-> raycastFrame,
   mesh |-> mesh]

\* const lr = (cur, tgt) => tgt > cur ? attackRate : releaseRate
lrAttackOnly(cur, tgt) == IF tgt > cur THEN attackRate ELSE 0
lr(cur, tgt) == IF tgt > cur THEN attackRate ELSE releaseRate

\* x += (target - x) * rate
ApproachPastTarget(x, target, rate) == target + Mul(target - x, rate)
Approach(x, target, rate) == x + Mul(target - x, rate)

\* idle + (active - idle) * t
InterpolateSwapped(idle, active, t) == active + Mul(idle - active, t)
Interpolate(idle, active, t) == idle + Mul(active - idle, t)

\* Vector3.lerp(v, alpha): each component moves by (v - this) * alpha
Lerp(this, v, alpha) == [i \in 1 .. 3 |-> Approach(this[i], v[i], alpha)]

\* BlobMaterial.tick(delta)
MaterialTick(u, delta) ==
  [u EXCEPT !.time = u.time + Mul(delta, u.speed),
            !.surfaceTime = u.surfaceTime + Mul(delta, u.surfaceSpeed)]

\* the fade-in block: the new fadeIn.current and material
FadeStepKeepsTransparent(fade, mat, dt) ==
  IF fade < SCALE
  THEN LET progress == Min2(SCALE, fade + Mul(dt, FadeRate))
       IN [fadeIn |-> progress,
           material |-> [opacity |-> Mul(progress, progress),
                         transparent |-> mat.transparent]]
  ELSE [fadeIn |-> fade, material |-> mat]
FadeStep(fade, mat, dt) ==
  IF fade < SCALE
  THEN LET progress == Min2(SCALE, fade + Mul(dt, FadeRate))
       IN [fadeIn |-> progress,
           material |-> [opacity |-> Mul(progress, progress),
                         transparent |-> IF progress >= SCALE THEN FALSE
                                         ELSE mat.transparent]]
  ELSE [fadeIn |-> fade, material |-> mat]

\* the four smoothed uniforms after material.tick
ShapeStep(u, v, speedMult) ==
  LET amp == v.amplitude
      surfaceAmp == Max2(v.midEnergy, v.highEnergy)
      targetDistort == Interpolate(IDLE.distort, ACTIVE.distort, amp)
      targetSpeed == Mul(Interpolate(IDLE.speed, ACTIVE.speed, amp), speedMult)
      targetSurfaceDistort ==
        Interpolate(IDLE.surfaceDistort, ACTIVE.surfaceDistort, surfaceAmp)
      targetSurfaceSpeed ==
        Mul(Interpolate(IDLE.surfaceSpeed, ACTIVE.surfaceSpeed, amp), speedMult)
  IN [u EXCEPT
        !.distort = Approach(u.distort, targetDistort, lr(u.distort, targetDistort)),
        !.speed = Approach(u.speed, targetSpeed, lr(u.speed, targetSpeed)),
        !.surfaceDistort = Approach(u.surfaceDistort, targetSurfaceDistort,
                                    lr(u.surfaceDistort, targetSurfaceDistort)),
        !.surfaceSpeed = Approach(u.surfaceSpeed, targetSurfaceSpeed,
                                  lr(u.surfaceSpeed, targetSurfaceSpeed))]

\* the breathing scale
ScaleStep(scale, amp) ==
  LET targetScale == Interpolate(SCALE_IDLE, SCALE_ACTIVE, amp)
      scaleRate == IF targetScale > scale THEN Fx(6, 100) ELSE Fx(3, 100)
  IN Approach(scale, targetScale, scaleRate)

\* the mesh after scale.set and the two rotation increments
MeshStepByScale(m, s, dt, speedMult) ==
  [scale |-> s,
   rotation |-> [y |-> m.rotation.y + Mul(Mul(Mul(dt, Fx(8, 100)), speedMult), s),
                 x |-> m.rotation.x + Mul(Mul(Mul(dt, Fx(3, 100)), speedMult), s)]]
MeshStep(m, s, dt, speedMult) ==
  [scale |-> s,
   rotation |-> [y |-> m.rotation.y + Mul(Mul(dt, Fx(8, 100)), speedMult),
                 x |-> m.rotation.x + Mul(Mul(dt, Fx(3, 100)), speedMult)]]

\* smoothedStrength after one raycast that found hit
StrengthStepLinear(strength, hit) ==
  IF hit.hit THEN Approach(strength, MaxStrength, HitRate)
  ELSE strength - Mul(MaxStrength, Fx(8, 100))
StrengthStep(strength, hit) ==
  IF hit.hit THEN Approach(strength, MaxStrength, HitRate)
  ELSE Mul(strength, MissFactor)

\* the mouse block: raycastFrame, the smoothed hit and the mouse uniforms
PointerStepEveryFrame(a, hit) ==
  LET frame == a.raycastFrame + 1
      point == IF hit.hit THEN Lerp(a.smoothedHit, hit.point, HitRate)
               ELSE a.smoothedHit
      strength == StrengthStep(a.smoothedStrength, hit)
  IN [raycastFrame |-> frame, smoothedHit |-> point,
      smoothedStrength |-> strength,
      mouseUniforms |-> [mouseHit |-> point, mouseStrength |-> strength]]
PointerStep(a, hit) ==
  LET frame == a.raycastFrame + 1
  IN IF frame % 3 = 0
     THEN LET point == IF hit.hit THEN Lerp(a.smoothedHit, hit.point, HitRate)
                       ELSE a.smoothedHit
              strength == StrengthStep(a.smoothedStrength, hit)
          IN [raycastFrame |-> frame, smoothedHit |-> point,
              smoothedStrength |-> strength,
              mouseUniforms |-> [mouseHit |-> point, mouseStrength |-> strength]]
     ELSE [raycastFrame |-> frame, smoothedHit |-> a.smoothedHit,
           smoothedStrength |-> a.smoothedStrength,
           mouseUniforms |-> a.mouseUniforms]

\* the publish block: the counter and the element.  JSON.stringify writes
\* the three numbers as they are, so dataset.levels is modelled as the record
PublishStep(counter, dom, v) ==
  LET n == counter + 1
  IN [levelWriteCounter |-> n,
      el |-> IF n % 6 = 0 /\ dom.present
             THEN [dom EXCEPT !.levels = [low |-> v.lowEnergy, mid |-> v.midEnergy,
                                          high |-> v.highEnergy]]
             ELSE dom]

\* the useFrame callback as a function: the animator a and the element dom
\* after a frame that took delta, read v and store and found hit under the
\* pointer
FrameStepNeedsElement(a, dom, v, store, delta, hit) ==
  LET dt == Min2(delta, MaxDt)
      fade == FadeStep(a.fadeIn, a.material, dt)
      speedMult == store.animationSpeed
      ticked == MaterialTick(a.uniforms, Mul(dt, speedMult))
      shaped == ShapeStep(ticked, v, speedMult)
      s == ScaleStep(a.currentScale, v.amplitude)
      mouse == PointerStep(a, hit)
      publish == PublishStep(a.levelWriteCounter, dom, v)
  IN IF ~dom.present
     THEN [a EXCEPT !.levelWriteCounter = publish.levelWriteCounter] @@ [el |-> dom]
     ELSE [uniforms |-> shaped, mouseUniforms |-> mouse.mouseUniforms,
           material |-> fade.material, fadeIn |-> fade.fadeIn,
           levelWriteCounter |-> publish.levelWriteCounter, currentScale |-> s,
           smoothedHit |-> mouse.smoothedHit,
           smoothedStrength |-> mouse.smoothedStrength,
           raycastFrame |-> mouse.raycastFrame,
           mesh |-> MeshStep(a.mesh, s, dt, speedMult), el |-> publish.el]
FrameStep(a, dom, v, store, delta, hit) ==
  LET dt == Min2(delta, MaxDt)
      fade == FadeStep(a.fadeIn, a.material, dt)
      speedMult == store.animationSpeed
      ticked == MaterialTick(a.uniforms, Mul(dt, speedMult))
      shaped == ShapeStep(ticked, v, speedMult)
      s == ScaleStep(a.currentScale, v.amplitude)
      mouse == PointerStep(a, hit)
      publish == PublishStep(a.levelWriteCounter, dom, v)
  IN [uniforms |-> shaped, mouseUniforms |-> mouse.mouseUniforms,
      material |-> fade.material, fadeIn |-> fade.fadeIn,
      levelWriteCounter |-> publish.levelWriteCounter, currentScale |-> s,
      smoothedHit |-> mouse.smoothedHit, smoothedStrength |-> mouse.smoothedStrength,
      raycastFrame |-> mouse.raycastFrame, mesh |-> MeshStep(a.mesh, s, dt, speedMult),
      el |-> publish.el]

analyserVars ==
  <<refs, rafIdRef, isListening, platform, scheduled, callVars, firstTick, mutator,
    ticks>>

\* one call of the useFrame callback (VoiceReactiveBlob.tsx:74-170)
FrameZeroesVoice(delta) ==
  /\ LET r == FrameStep(Animator, el, voiceData, debugStore, delta, pointer)
     IN /\ uniforms' = r.uniforms
        /\ mouseUniforms' = r.mouseUniforms
        /\ material' = r.material
        /\ fadeIn' = r.fadeIn
        /\ levelWriteCounter' = r.levelWriteCounter
        /\ currentScale' = r.currentScale
        /\ smoothedHit' = r.smoothedHit
        /\ smoothedStrength' = r.smoothedStrength
        /\ raycastFrame' = r.raycastFrame
        /\ mesh' = r.mesh
        /\ el' = r.el
  /\ held' = IF held.v = voiceData /\ held.speed = debugStore.animationSpeed
             THEN [held EXCEPT !.n = held.n + 1]
             ELSE [n |-> 1, v |-> voiceData, speed |-> debugStore.animationSpeed]
  /\ missRun' = IF raycastFrame' % 3 # 0 THEN missRun
                ELSE IF pointer.hit THEN NoRun
                ELSE [n |-> missRun.n + 1,
                      from |-> IF missRun.n = 0 THEN smoothedStrength
                               ELSE missRun.from]
  /\ lastOp' = Op("useFrame", 0)
  /\ stopStreak' = 0
  /\ voiceData' = EMPTY_VOICE_DATA
  /\ UNCHANGED <<debugStore, analyserVars, pointer, probe>>
Frame(delta) ==
  /\ LET r == FrameStep(Animator, el, voiceData, debugStore, delta, pointer)
     IN /\ uniforms' = r.uniforms
        /\ mouseUniforms' = r.mouseUniforms
        /\ material' = r.material
        /\ fadeIn' = r.fadeIn
        /\ levelWriteCounter' = r.levelWriteCounter
        /\ currentScale' = r.currentScale
        /\ smoothedHit' = r.smoothedHit
        /\ smoothedStrength' = r.smoothedStrength
        /\ raycastFrame' = r.raycastFrame
        /\ mesh' = r.mesh
        /\ el' = r.el
  /\ held' = IF held.v = voiceData /\ held.speed = debugStore.animationSpeed
             THEN [held EXCEPT !.n = held.n + 1]
             ELSE [n |-> 1, v |-> voiceData, speed |-> debugStore.animationSpeed]
  /\ missRun' = IF raycastFrame' % 3 # 0 THEN missRun
                ELSE IF pointer.hit THEN NoRun
                ELSE [n |-> missRun.n + 1,
                      from |-> IF missRun.n = 0 THEN smoothedStrength
                               ELSE missRun.from]
  /\ lastOp' = Op("useFrame", 0)
  /\ stopStreak' = 0
  /\ UNCHANGED <<voiceData, debugStore, analyserVars, pointer, probe>>

\* the analyser leaves v in voiceData.current (what analyse, startListening
\* and stopListening write there, as the frame callback finds it)
VoiceUpdate(v) ==
  /\ voiceData # v
  /\ voiceData' = v
  /\ lastOp' = Op("voiceData", 0)
  /\ stopStreak' = 0
  /\ UNCHANGED <<debugStore, analyserVars, animator, probe>>

\* the control panel's speed slider (DebugPanel.tsx:96-100)
handleAnimationSpeed(val) ==
  /\ debugStore.animationSpeed # val
  /\ debugStore' = [debugStore EXCEPT !.animationSpeed = val]
  /\ lastOp' = Op("handleAnimationSpeed", 0)
  /\ stopStreak' = 0
  /\ UNCHANGED animator
  /\ UNCHANGED probe
  /\ StoreUnchanged

\* the pointer moves: the next raycast finds hit
PointerMove(hit) ==
  /\ pointer # hit
  /\ pointer' = hit
  /\ lastOp' = Op("pointer", 0)
  /\ stopStreak' = 0
  /\ UNCHANGED <<voiceData, debugStore, analyserVars, animation, levelWriteCounter,
                 el, held, missRun, probe>>

\* what the analyser can leave in voiceData: silence, every band at 1, and
\* the bass alone at 1
Peak == [amplitude |-> SCALE, lowEnergy |-> SCALE, midEnergy |-> SCALE,
         highEnergy |-> SCALE]
BassOnly == [amplitude |-> SCALE, lowEnergy |-> SCALE, midEnergy |-> 0,
             highEnergy |-> 0]

\* the time between two frames at 60 frames a second, and a stall longer
\* than the 0.1 s the callback allows for
FrameDelta == Fx(16, 1000)
StallDelta == Fx(25, 100)

\* a voice that rises before the first frame and is held, for good or until
\* it falls silent within RiseFrames frames; the speed slider is set before
\* the first frame
RiseSettle == raycastFrame = 0 /\ \E v \in {Peak, BassOnly} : VoiceUpdate(v)
FallSettle == raycastFrame <= RiseFrames /\ VoiceUpdate(EMPTY_VOICE_DATA)
SpeedSettle == raycastFrame = 0 /\ \E val \in {Fx(1, 1), Fx(2, 1)} : handleAnimationSpeed(val)
FrameSettle == raycastFrame < MaxRun /\ Frame(FrameDelta)

NextSettle == RiseSettle \/ FallSettle \/ SpeedSettle \/ FrameSettle

SpecSettle == Init /\ [][NextSettle]_vars

\* a pointer that wanders on and off the blob during the first MixFrames
\* frames, then rests where it is and may leave the blob for good
OnBlob == HitAt(<<SCALE, 0, 0>>)
PointerWander == raycastFrame < MixFrames /\ \E hit \in {Miss, OnBlob} : PointerMove(hit)
PointerLeave == raycastFrame >= MixFrames /\ PointerMove(Miss)
FramePointer == raycastFrame < MaxPointerFrames /\ Frame(FrameDelta)

NextPointer == PointerWander \/ PointerLeave \/ FramePointer

SpecPointer == Init /\ [][NextPointer]_vars

\* the first frames after mount, smooth or stalled
Deltas == {FrameDelta, StallDelta}
FrameFade == raycastFrame < MaxFadeFrames /\ \E delta \in Deltas : Frame(delta)

NextFade == FrameFade

SpecFade == Init /\ [][NextFade]_vars

\* a few frames, smooth or stalled, while the voice comes and goes; the speed
\* slider is set before the first frame
Vowel == [amplitude |-> Fx(8, 10), lowEnergy |-> Fx(2, 10), midEnergy |-> Fx(8, 10),
          highEnergy |-> Fx(4, 10)]
FrameAny == raycastFrame < MaxFrames /\ \E delta \in Deltas : Frame(delta)
VoiceAny == \E v \in {EMPTY_VOICE_DATA, Vowel} : VoiceUpdate(v)
SpeedAny ==
  raycastFrame = 0 /\ \E val \in {Fx(1, 1), Fx(5, 1)} : handleAnimationSpeed(val)

NextFrame == FrameAny \/ VoiceAny \/ SpeedAny

SpecFrame == Init /\ [][NextFrame]_vars

\* one session with the blob on screen: the analysis ticks and the render
\* frames interleave as the browser schedules them, while the panel mutes
\* and sets the speed
MaxLiveFrames == 3
FrameLive == raycastFrame < MaxLiveFrames /\ Frame(FrameDelta)
SpeedLive == \E val \in {Fx(1, 1), Fx(2, 1)} : handleAnimationSpeed(val)

NextLive ==
  \/ StartListening(1, "startListening")
  \/ GetUserMediaResolve(1)
  \/ LoadMicrophonesDone(1, "running")
  \/ Tick
  \/ FrameLive
  \/ SpeedLive
  \/ handleMuteToggle

SpecLive == Init /\ [][NextLive]_vars

\* ------------------------------------------- functions applied on their own
programVars == <<voiceData, debugStore, analyserVars, animator>>

\* two runs of the frame callback side by side, fed the same frame times and
\* the same store: one that reads silence throughout and one whose voice
\* comes and goes between frames
MaxTwinFrames == 3
TwinStart == Animator @@ [el |-> el]

InitTwin ==
  /\ Mounted
  /\ probe = [fn |-> "Twin", frames |-> 0, store |-> StoreInit,
              v |-> EMPTY_VOICE_DATA, dt |-> 0, was |-> TwinStart.mesh.rotation,
              silent |-> TwinStart, voiced |-> TwinStart]

\* one frame of both runs
TwinFrame(delta) ==
  /\ probe.fn = "Twin"
  /\ probe.frames < MaxTwinFrames
  /\ probe' = [probe EXCEPT
                 !.frames = probe.frames + 1,
                 !.dt = Min2(delta, MaxDt),
                 !.was = probe.voiced.mesh.rotation,
                 !.silent = FrameStep(probe.silent, probe.silent.el, EMPTY_VOICE_DATA,
                                      probe.store, delta, Miss),
                 !.voiced = FrameStep(probe.voiced, probe.voiced.el, probe.v,
                                      probe.store, delta, Miss)]
  /\ lastOp' = Op("useFrame", 0)
  /\ UNCHANGED <<programVars, stopStreak>>

\* the voice of the second run changes between two frames
TwinVoice(v) ==
  /\ probe.fn = "Twin"
  /\ probe.v # v
  /\ probe' = [probe EXCEPT !.v = v]
  /\ lastOp' = Op("voiceData", 0)
  /\ UNCHANGED <<programVars, stopStreak>>

\* the speed slider moves between two frames
TwinSpeed(val) ==
  /\ probe.fn = "Twin"
  /\ probe.store.animationSpeed # val
  /\ probe' = [probe EXCEPT !.store.animationSpeed = val]
  /\ lastOp' = Op("handleAnimationSpeed", 0)
  /\ UNCHANGED <<programVars, stopStreak>>

NextTwin ==
  \/ \E delta \in Deltas : TwinFrame(delta)
  \/ \E v \in {EMPTY_VOICE_DATA, Peak} : TwinVoice(v)
  \/ \E val \in {Fx(1, 1), Fx(5, 1)} : TwinSpeed(val)

SpecTwin == InitTwin /\ [][NextTwin]_vars

\* the raw band values 0, 0.05 .. 1 and the gates of the noise-gate slider,
\* 0 .. 0.3 in steps of 0.01 (DebugPanel.tsx:272-283)
GateStep == Fx(1, 100)
MaxGate == Fx(3, 10)
RawValues == {Fx(i, 20) : i \in 0 .. 20}
GateValues == {i * GateStep : i \in 0 .. 30}

InitGate ==
  /\ Mounted
  /\ probe \in {[fn |-> "NoiseGate", raw |-> r, gate |-> g, out |-> -1, was |-> -1] :
                  r \in RawValues, g \in GateValues}

\* the gate of analyse applied to the band value (DebugPanel.tsx:561-565)
ApplyNoiseGate ==
  /\ probe.fn = "NoiseGate"
  /\ probe.out = -1
  /\ probe' = [probe EXCEPT !.out = NoiseGate(probe.raw, probe.gate)]
  /\ lastOp' = Op("NoiseGate", 0)
  /\ UNCHANGED <<programVars, stopStreak>>

\* the slider moves up one step and the same band value is gated again
RaiseGate ==
  /\ probe.fn = "NoiseGate"
  /\ probe.out # -1
  /\ probe.gate + GateStep <= MaxGate
  /\ probe' = [probe EXCEPT !.gate = probe.gate + GateStep,
                            !.out = NoiseGate(probe.raw, probe.gate + GateStep),
                            !.was = probe.out]
  /\ lastOp' = Op("RaiseGate", 0)
  /\ UNCHANGED <<programVars, stopStreak>>

NextGate == ApplyNoiseGate \/ RaiseGate

SpecGate == InitGate /\ [][NextGate]_vars

\* the envelope follower of one band on its own: the smoothed value cur
\* follows target, which jumps between 0, 0.5 and 1
EnvelopeTargets == {0, Fx(1, 2), Fx(1, 1)}

InitEnvelope ==
  /\ Mounted
  /\ probe \in {[fn |-> "Envelope", cur |-> c, target |-> t, was |-> -1] :
                  c \in {0, Fx(1, 1)}, t \in EnvelopeTargets}

\* one tick of the follower (DebugPanel.tsx:567-593)
EnvelopeTick ==
  /\ probe.fn = "Envelope"
  /\ probe' = [probe EXCEPT !.cur = Envelope(probe.cur, probe.target),
                            !.was = probe.cur]
  /\ lastOp' = Op("Envelope", 0)
  /\ UNCHANGED <<programVars, stopStreak>>

\* the band's target changes between two ticks
TargetJump(t) ==
  /\ probe.fn = "Envelope"
  /\ probe.target # t
  /\ probe' = [probe EXCEPT !.target = t, !.was = -1]
  /\ lastOp' = Op("target", 0)
  /\ UNCHANGED <<programVars, stopStreak>>

NextEnvelope == EnvelopeTick \/ \E t \in EnvelopeTargets : TargetJump(t)

SpecEnvelope == InitEnvelope /\ [][NextEnvelope]_vars

\* ----------------------------------------------------- the shaders' noise
\* NOISE_PERIOD, as the vertex shader defines it and the fragment shader
\* repeats it
NOISE_PERIOD == Fx(10, 1)

\* mod(x, NOISE_PERIOD)
NoiseMod(x) == x % NOISE_PERIOD

\* vec3 + float, vec3 * float and vec3 / float, component by component
AddScalar(v, s) == [i \in 1 .. 3 |-> v[i] + s]
Times(v, k) == [i \in 1 .. 3 |-> Mul(v[i], k)]
Over(v, k) == [i \in 1 .. 3 |-> Div(v[i], k)]

\* the four noise samples of a frame and the wrapped time each one reads
Samples == {"goo", "surfaceNoise", "n1", "n2"}
WrappedTime(k, u) ==
  CASE k = "goo" -> NoiseMod(Mul(u.time, u.speed))
    [] k = "surfaceNoise" -> NoiseMod(u.surfaceTime)
    [] OTHER -> NoiseMod(Mul(u.time, Fx(25, 100)))

\* the coordinate pnoise is sampled at, for the point and the wrapped time w
SampleAt(k, point, w) ==
  CASE k = "goo" -> AddScalar(Over(point, BLOB_DEFAULTS.frequency), w)
    [] k = "surfaceNoise" -> AddScalar(Over(point, BLOB_DEFAULTS.surfaceFrequency), w)
    [] k = "n1" -> AddScalar(Times(point, Fx(4, 10)), w)
    [] OTHER -> AddScalar(Times(<<point[2], point[3], point[1]>>, Fx(35, 100)),
                          Mul(w, Fx(7, 10)) + Fx(42, 10))

\* the periodic gradient noise prepended to the shaders: the lattice cell of
\* P is taken modulo rep, each corner of the cell gets one of twelve
\* gradients from a hash of its lattice coordinates, and the corners'
\* gradient products are blended by the fade curve of the position in the cell
permute(x) == (((34 * x) + 1) * x) % 289
Gradients ==
  <<<<1, 1, 0>>, <<-1, 1, 0>>, <<1, -1, 0>>, <<-1, -1, 0>>,
    <<1, 0, 1>>, <<-1, 0, 1>>, <<1, 0, -1>>, <<-1, 0, -1>>,
    <<0, 1, 1>>, <<0, -1, 1>>, <<0, 1, -1>>, <<0, -1, -1>>>>
fade(t) == Mul(Mul(Mul(t, t), t), Mul(t, (6 * t) - (15 * SCALE)) + (10 * SCALE))
mix(x, y, a) == x + Mul(y - x, a)
Corner(P, rep, c) ==
  LET cell == [i \in 1 .. 3 |-> ((P[i] \div SCALE) + c[i]) % (rep[i] \div SCALE)]
      g == Gradients[(permute(permute(permute(cell[1]) + cell[2]) + cell[3]) % 12) + 1]
      Pf == [i \in 1 .. 3 |-> (P[i] % SCALE) - (c[i] * SCALE)]
  IN (g[1] * Pf[1]) + (g[2] * Pf[2]) + (g[3] * Pf[3])
pnoise(P, rep) ==
  LET f == [i \in 1 .. 3 |-> fade(P[i] % SCALE)]
      x00 == mix(Corner(P, rep, <<0, 0, 0>>), Corner(P, rep, <<1, 0, 0>>), f[1])
      x10 == mix(Corner(P, rep, <<0, 1, 0>>), Corner(P, rep, <<1, 1, 0>>), f[1])
      x01 == mix(Corner(P, rep, <<0, 0, 1>>), Corner(P, rep, <<1, 0, 1>>), f[1])
      x11 == mix(Corner(P, rep, <<0, 1, 1>>), Corner(P, rep, <<1, 1, 1>>), f[1])
  IN mix(mix(x00, x10, f[2]), mix(x01, x11, f[2]), f[3])

\* the noise samples a frame draws at a point of the sphere: the wrapped
\* time, the coordinate and the noise value of each
Period3 == <<NOISE_PERIOD, NOISE_PERIOD, NOISE_PERIOD>>
Render(point, u) ==
  [k \in Samples |->
     LET w == WrappedTime(k, u)
     IN [w |-> w, at |-> SampleAt(k, point, w),
         value |-> pnoise(SampleAt(k, point, w), Period3)]]

\* the shaders on their own: a point of the unit sphere, the clocks shortly
\* before one of the wrapped times reaches the period, and frames that tick
\* the clocks and draw the point
MaxShaderFrames == 4
SpherePoints == {<<SCALE, 0, 0>>, <<0, SCALE, 0>>, <<Fx(6, 10), 0, 0 - Fx(8, 10)>>}
ClockStarts == {0, Fx(1995, 100), Fx(3995, 100)}
SurfaceClockStarts == {0, Fx(995, 100)}
ShaderSpeeds == {Fx(25, 100), IDLE.speed}

InitShader ==
  /\ Mounted
  /\ probe \in {[fn |-> "Shader", point |-> p, frames |-> 0, u |-> u,
                 was |-> Render(p, u), out |-> Render(p, u)] :
                  p \in SpherePoints,
                  u \in {[UniformsInit EXCEPT !.time = t, !.speed = s, !.surfaceTime = st] :
                           t \in ClockStarts, s \in ShaderSpeeds,
                           st \in SurfaceClockStarts}}

\* one frame: material.tick(delta), then the shaders draw the point
ShaderFrame(delta) ==
  /\ probe.fn = "Shader"
  /\ probe.frames < MaxShaderFrames
  /\ LET u == MaterialTick(probe.u, delta)
     IN probe' = [probe EXCEPT !.frames = probe.frames + 1, !.u = u,
                               !.was = probe.out,
                               !.out = Render(probe.point, u)]
  /\ lastOp' = Op("tick", 0)
  /\ UNCHANGED <<programVars, stopStreak>>

NextShader == \E delta \in {FrameDelta, MaxDt} : ShaderFrame(delta)

SpecShader == InitShader /\ [][NextShader]_vars

\* ------------------------------------------------------------- properties
Fields == {"amplitude", "lowEnergy", "midEnergy", "highEnergy"}
Eps == Fx(1, 1000)
AllBelow(e) == \A f \in Fields : voiceData[f] < e
Ticking == \E id \in RafIds : scheduled[id] # 0
NeverStarted == \A c \in Calls : pc[c] = "idle"
Acquired(c) == tracks[c] # "none"
StoppedState ==
  /\ audioContextRef = 0
  /\ analyserRef = 0
  /\ sourceRef = 0
  /\ streamRef = 0
  /\ frequencyDataRef = FALSE
  /\ voiceData = EMPTY_VOICE_DATA
  /\ isListening = FALSE

\* C1: after every analysis tick, muted or not, for every spectrum and every
\* store value in range, the four fields lie in [0,1] and amplitude is the
\* largest of lowEnergy, midEnergy and highEnergy.
C1_EnergiesInRange ==
  /\ \A f \in Fields : voiceData[f] >= 0 /\ voiceData[f] <= SCALE
  /\ voiceData.amplitude >= voiceData.lowEnergy
  /\ voiceData.amplitude >= voiceData.midEnergy
  /\ voiceData.amplitude >= voiceData.highEnergy
  /\ voiceData.amplitude \in
       {voiceData.lowEnergy, voiceData.midEnergy, voiceData.highEnergy}

\* a muted tick has run on distinct, positive energies
C1_Witness ==
  /\ lastOp.op = "analyse"
  /\ debugStore.isMuted
  /\ voiceData.lowEnergy > 0
  /\ voiceData.lowEnergy < voiceData.midEnergy
  /\ voiceData.highEnergy < voiceData.lowEnergy

\* C2: when getUserMedia rejects for a call made while a session was
\* running, that session is untouched: voiceData has the values it had
\* before the call, the stream acquired before is still live, a tick is
\* still scheduled and isListening describes a running session.
C2_FailedAcquireLeavesSession ==
  LET was == pre[lastOp.call]
  IN (lastOp.op = "getUserMedia.reject" /\ was.isListening /\ was.live /\ was.ticking)
       => /\ voiceData = was.voiceData
          /\ tracks[was.streamRef] = "live"
          /\ Ticking
          /\ isListening

\* C3: no capture stream is leaked: a stream whose tracks are live is the
\* current stream, so at most one live stream exists.
C3_NoLeakedStream ==
  \A s \in Calls : tracks[s] = "live" => streamRef = s

\* C4: when stopListening returns no analysis tick remains scheduled.
C4_StopLeavesNoTick ==
  lastOp.op = "stopListening" => ~Ticking

\* C5: stopListening can always be called, and called before any start or
\* directly after another stopListening it changes nothing and leaves the
\* stopped state: references null, voiceData zero, isListening false.
C5_SecondStop ==
  (lastOp'.op = "stopListening" /\ (stopStreak >= 1 \/ NeverStarted))
    => /\ StoppedState'
       /\ UNCHANGED <<voiceData, refs, rafIdRef, isListening, platform, scheduled>>
C5_StopIdempotent ==
  /\ [](ENABLED StopListening)
  /\ [][C5_SecondStop]_vars

\* stopListening was called twice in a row after a session had run
C5_Witness ==
  /\ stopStreak = 2
  /\ StoppedState
  /\ \E c \in Calls : returned[c] = "true"

\* C6: switchMicrophone called before any startListening is a no-op: no
\* stream is acquired, no tick is scheduled, isListening stays false.
C6_SwitchBeforeStartIsNoOp ==
  (callee[1] = "switchMicrophone" /\ \A c \in Calls : c > 1 => pc[c] = "idle")
    => /\ ~Acquired(1)
       /\ ~Ticking
       /\ ~isListening

\* C7: a startListening made directly after stopListening finds voiceData
\* zero at the first tick of its loop: no tick of an earlier call's loop has
\* changed it since the reset.
C7_FirstTickSeesZero ==
  \A c \in Calls : afterStop[c] => firstTick[c] # "earlier"

\* C8: when stopListening returns, the current stream's tracks are stopped,
\* the source is disconnected, the context is closed, the references are
\* null, voiceData is zero and isListening is false.
C8_StopStep ==
  lastOp'.op = "stopListening"
    => /\ (streamRef # 0 => tracks'[streamRef] = "ended")
       /\ (sourceRef # 0 => srcState'[sourceRef] = "disconnected")
       /\ (audioContextRef # 0 => ctxState'[audioContextRef] = "closed")
       /\ StoppedState'
C8_StopReleases == [][C8_StopStep]_vars

\* stopListening has just ended a session that was running
C8_Witness ==
  /\ lastOp.op = "stopListening"
  /\ stopStreak = 1
  /\ \E c \in Calls :
       /\ returned[c] = "true"
       /\ tracks[c] = "ended"
       /\ srcState[c] = "disconnected"
       /\ ctxState[c] = "closed"

\* C9: the caller of either operation is told whether the device was
\* acquired: true when it was, false when it was not.
C9_FailureReported ==
  \A c \in Calls :
    pc[c] = "done" => toCaller[c] = (IF Acquired(c) THEN "true" ELSE "false")

\* C10: a tick that finds the store muted leaves the spectrum buffer alone
\* and multiplies each of the four fields by 0.9, so no field grows or
\* becomes negative; and while the store stays muted every field
\* eventually falls below Eps.
C10_MutedTick ==
  (lastOp'.op = "analyse" /\ debugStore.isMuted /\ analyserRef # 0 /\ audioContextRef # 0)
    => /\ \A f \in Fields :
            /\ voiceData'[f] = Mul(voiceData[f], Fx(9, 10))
            /\ voiceData'[f] >= 0
            /\ voiceData'[f] <= voiceData[f]
       /\ UNCHANGED frequencyDataRef
C10_MuteFade ==
  /\ [][C10_MutedTick]_vars
  /\ (debugStore.isMuted ~> (~debugStore.isMuted \/ AllBelow(Eps)))

\* a muted tick has just shrunk energies that are still above Eps
C10_Witness ==
  /\ lastOp.op = "analyse"
  /\ debugStore.isMuted
  /\ voiceData.amplitude < SCALE
  /\ \A f \in Fields : voiceData[f] > Eps

\* C11: the noise gate maps a raw band value r and a gate g to (r - g)/(1 - g)
\* when r > g and to exactly 0 when r <= g; its output stays in [0, 1]; and
\* for a fixed r, raising the gate never raises the output.
C11_Gated ==
  (probe.fn = "NoiseGate" /\ probe.out # -1) =>
    /\ probe.raw <= probe.gate => probe.out = 0
    /\ probe.raw > probe.gate =>
         /\ probe.out * (SCALE - probe.gate) <= (probe.raw - probe.gate) * SCALE
         /\ (probe.raw - probe.gate) * SCALE < (probe.out + 1) * (SCALE - probe.gate)
    /\ probe.out >= 0
    /\ probe.out <= SCALE
C11_Raised ==
  (probe'.fn = "NoiseGate" /\ probe.out # -1 /\ probe'.gate > probe.gate
     /\ probe'.raw = probe.raw)
    => probe'.out <= probe.out
C11_NoiseGate == []C11_Gated /\ [][C11_Raised]_vars
C11_Witness ==
  /\ probe.fn = "NoiseGate"
  /\ lastOp.op = "RaiseGate"
  /\ probe.raw > probe.gate
  /\ probe.raw < SCALE
  /\ probe.out > 0
  /\ probe.out < probe.was

\* C12: the envelope follower is asymmetric.  With the target at 1 above the
\* value, a tick adds attack x (1 - value), rounded down to the resolution,
\* so the value rises as long as that step is a whole unit and never passes
\* the target; with the target at 0 a tick multiplies the value by release,
\* so a value of 1 - or any value of at least Eps - is not 0 after the tick.
C12_Tick ==
  (probe'.fn = "Envelope" /\ probe'.was = probe.cur /\ probe'.target = probe.target) =>
    /\ (probe.target = SCALE /\ probe.cur < SCALE) =>
         /\ (probe'.cur - probe.cur) * SCALE > (SCALE - probe.cur) * attack - SCALE
         /\ ((SCALE - probe.cur) * attack >= SCALE => probe'.cur > probe.cur)
         /\ probe'.cur >= probe.cur
         /\ probe'.cur <= probe.target
    /\ (probe.target = 0) =>
         /\ probe'.cur * SCALE <= probe.cur * release
         /\ probe.cur * release < (probe'.cur + 1) * SCALE
         /\ (probe.cur >= Eps => probe'.cur > 0)
         /\ (probe.cur > 0 => probe'.cur < probe.cur)
C12_EnvelopeAsymmetry == [][C12_Tick]_vars
C12_Witness ==
  /\ probe.fn = "Envelope"
  /\ lastOp.op = "Envelope"
  /\ probe.target = 0
  /\ probe.was = SCALE
  /\ probe.cur = release

Tol == Fx(1, 100)
Near(x, y) == x - y <= Tol /\ y - x <= Tol
Settled == held.n >= SettleFrames /\ lastOp.op = "useFrame"

\* C13: from whatever state the animator is in, once the frames have read
\* amplitude 0 and one animationSpeed for SettleFrames frames, distort is
\* within Tol of 0.6, speed of 0.5 x animationSpeed, surfaceDistort of 1.4 and
\* scale of 0.64, and they stay there on every later such frame.
C13_IdleSettles ==
  (Settled /\ held.v.amplitude = 0) =>
    /\ Near(uniforms.distort, IDLE.distort)
    /\ Near(uniforms.speed, Mul(IDLE.speed, held.speed))
    /\ Near(uniforms.surfaceDistort, IDLE.surfaceDistort)
    /\ Near(currentScale, SCALE_IDLE)
    /\ mesh.scale = currentScale
C13_Witness ==
  /\ Settled
  /\ held.v.amplitude = 0
  /\ held.speed = Fx(2, 1)
  /\ raycastFrame >= held.n + RiseFrames

RECURSIVE MissPower(_)
MissPower(n) == IF n = 0 THEN SCALE ELSE Mul(MissPower(n - 1), MissFactor)
DecayEps == Fx(2, 1000)
Evaluated == lastOp'.op = "useFrame" /\ raycastFrame' % 3 = 0

\* C15: after N pointer evaluations in a row that missed, the interaction
\* strength is the strength the run started from x 0.92^N (to within
\* DecayEps), for a run started from 0.4 as from any other strength; every
\* such evaluation lowers it, it is never negative, and under any mix of
\* hits and misses it stays within [0, 0.4].
C15_Range ==
  /\ smoothedStrength >= 0
  /\ smoothedStrength <= MaxStrength
  /\ mouseUniforms.mouseStrength >= 0
  /\ mouseUniforms.mouseStrength <= MaxStrength
  /\ missRun.n > 0 =>
       /\ smoothedStrength - Mul(missRun.from, MissPower(missRun.n)) <= DecayEps
       /\ Mul(missRun.from, MissPower(missRun.n)) - smoothedStrength <= DecayEps
C15_Decreasing ==
  (Evaluated /\ ~pointer.hit) =>
    /\ smoothedStrength' <= smoothedStrength
    /\ (smoothedStrength > 0 => smoothedStrength' < smoothedStrength)
C15_MissDecay == []C15_Range /\ [][C15_Decreasing]_vars
C15_Witness ==
  /\ missRun.n >= 10
  /\ missRun.from >= MaxStrength - Tol
  /\ smoothedStrength > 0
  /\ smoothedStrength < Mul(missRun.from, Fx(1, 2))

Rendered == lastOp'.op = "useFrame"

\* C16: on every frame, with dt = min(delta, 0.1), the animation clock
\* advances by dt x speed x animationSpeed and the surface clock by
\* dt x surfaceSpeed x animationSpeed, animationSpeed entering each once: the
\* speed multiplied in is a speed between idle and active (0.5 .. 0.58, and
\* 0.4 .. 0.48 for the surface); and neither clock ever decreases.
C16_Advance ==
  Rendered =>
    \E delta \in Deltas :
      LET scaled == Mul(Min2(delta, MaxDt), debugStore.animationSpeed)
      IN /\ uniforms'.time - uniforms.time >= Mul(scaled, IDLE.speed)
         /\ uniforms'.time - uniforms.time <= Mul(scaled, ACTIVE.speed)
         /\ uniforms'.surfaceTime - uniforms.surfaceTime >= Mul(scaled, IDLE.surfaceSpeed)
         /\ uniforms'.surfaceTime - uniforms.surfaceTime <= Mul(scaled, ACTIVE.surfaceSpeed)
         /\ uniforms'.time >= uniforms.time
         /\ uniforms'.surfaceTime >= uniforms.surfaceTime
C16_ClocksScaleOnce == [][C16_Advance]_vars

\* C17: the fade-in progress starts at 0, a frame adds dt x 0.7 to it, never
\* lowers it and caps it at 1; the opacity is always the progress squared;
\* the material is transparent until the progress is 1 and not from then on,
\* and on every later frame the opacity stays 1.
C17_Faded ==
  /\ fadeIn >= 0
  /\ fadeIn <= SCALE
  /\ material.opacity * SCALE <= fadeIn * fadeIn
  /\ fadeIn * fadeIn < (material.opacity + 1) * SCALE
  /\ material.transparent = (fadeIn < SCALE)
  /\ (fadeIn = SCALE => material.opacity = SCALE)
  /\ (raycastFrame = 0 => fadeIn = 0)
C17_Progress ==
  Rendered =>
    /\ fadeIn' >= fadeIn
    /\ \E delta \in Deltas :
         LET dt == Min2(delta, MaxDt)
             step == fadeIn' - fadeIn
         IN \/ /\ fadeIn' < SCALE
               /\ step * SCALE <= dt * FadeRate
               /\ dt * FadeRate < (step + 1) * SCALE
            \/ /\ fadeIn' = SCALE
               /\ step * SCALE <= dt * FadeRate
    /\ (fadeIn = SCALE => material' = material)
C17_FadeIn == []C17_Faded /\ [][C17_Progress]_vars
C17_Witness ==
  /\ fadeIn = SCALE
  /\ ~material.transparent
  /\ material.opacity = SCALE
  /\ raycastFrame >= 20

\* C18: the pointer is evaluated on every third frame only.  A frame that
\* skips it leaves the interaction strength, the smoothed hit point and the
\* pointer uniforms as they were; an evaluated frame makes the strength a
\* function of the strength before and of the hit or miss alone, and hands
\* the smoothed values to the uniforms.
C18_Frame ==
  Rendered =>
    /\ raycastFrame' = raycastFrame + 1
    /\ raycastFrame' % 3 # 0 =>
         /\ smoothedStrength' = smoothedStrength
         /\ smoothedHit' = smoothedHit
         /\ mouseUniforms' = mouseUniforms
    /\ raycastFrame' % 3 = 0 =>
         /\ pointer.hit =>
              LET step == smoothedStrength' - smoothedStrength
              IN /\ step * SCALE <= (MaxStrength - smoothedStrength) * HitRate
                 /\ (MaxStrength - smoothedStrength) * HitRate < (step + 1) * SCALE
         /\ ~pointer.hit =>
              /\ smoothedStrength' * SCALE <= smoothedStrength * MissFactor
              /\ smoothedStrength * MissFactor < (smoothedStrength' + 1) * SCALE
              /\ smoothedHit' = smoothedHit
         /\ mouseUniforms' = [mouseHit |-> smoothedHit',
                              mouseStrength |-> smoothedStrength']
C18_PointerThrottle == [][C18_Frame]_vars
C18_Witness ==
  /\ lastOp.op = "useFrame"
  /\ raycastFrame % 3 = 1
  /\ raycastFrame > MixFrames
  /\ pointer.hit
  /\ smoothedStrength > 0
  /\ smoothedStrength < MaxStrength - Tol
  /\ smoothedHit # Origin

\* what C19 calls the animation state, taken from a result of FrameStep
AnimationOf(r) ==
  [uniforms |-> r.uniforms, mouseUniforms |-> r.mouseUniforms,
   material |-> r.material, fadeIn |-> r.fadeIn, currentScale |-> r.currentScale,
   smoothedHit |-> r.smoothedHit, smoothedStrength |-> r.smoothedStrength,
   raycastFrame |-> r.raycastFrame, mesh |-> r.mesh]

\* C19: publishing never affects the animation.  On every sixth frame the
\* callback writes the low, mid and high energies it read on that frame to
\* the element, and on no other frame; and the animation state a frame
\* leaves (uniforms, clocks, scale, rotation, pointer state, fade-in) is the
\* same whether that frame publishes or skips and whether the element is
\* there or not.
C19_Publish ==
  Rendered =>
    /\ levelWriteCounter' = levelWriteCounter + 1
    /\ el' = IF levelWriteCounter' % 6 = 0 /\ el.present
             THEN [el EXCEPT !.levels = [low |-> voiceData.lowEnergy,
                                         mid |-> voiceData.midEnergy,
                                         high |-> voiceData.highEnergy]]
             ELSE el
C19_Unaffected ==
  \A delta \in Deltas : \A hit \in {Miss, OnBlob} :
    \A case \in {<<5, Appended>>, <<5, Removed>>, <<4, Appended>>} :
      AnimationOf(FrameStep([Animator EXCEPT !.levelWriteCounter = case[1]], case[2],
                            voiceData, debugStore, delta, hit))
        = AnimationOf(FrameStep(Animator, el, voiceData, debugStore, delta, hit))
C19_TelemetryApart == []C19_Unaffected /\ [][C19_Publish]_vars
C19_Witness ==
  /\ lastOp.op = "useFrame"
  /\ levelWriteCounter = 6
  /\ voiceData = Vowel
  /\ el.levels = [low |-> Vowel.lowEnergy, mid |-> Vowel.midEnergy,
                  high |-> Vowel.highEnergy]
  /\ uniforms.distort > IDLE.distort

\* C20: every noise sample is seamless under time looping. On a frame where
\* a sample's wrapped time has gone back from the end of its period to the
\* start, the coordinate the sample is drawn at and the coordinate it would
\* have been drawn at had the time run on (the wrapped time plus one period)
\* differ by a whole number of periods in each component, and the noise is
\* the same at both.
Looped(k) == probe.out[k].w < probe.was[k].w
C20_SeamlessLoop ==
  (probe.fn = "Shader") =>
    \A k \in Samples :
      Looped(k) =>
        LET on == SampleAt(k, probe.point, probe.out[k].w + NOISE_PERIOD)
        IN /\ \A i \in 1 .. 3 : (on[i] - probe.out[k].at[i]) % NOISE_PERIOD = 0
           /\ pnoise(on, Period3) = probe.out[k].value

\* C21: the render frame only reads voiceData and the store, and the
\* analysis tick leaves the animator alone: a frame changes no field of
\* voiceData and no field of debugStore, and a tick changes no uniform or
\* clock, nor the scale, the mesh, the pointer state, the fade-in or the
\* publish counter and element.
C21_Step ==
  /\ (lastOp'.op = "useFrame") => (voiceData' = voiceData /\ debugStore' = debugStore)
  /\ (lastOp'.op = "analyse") =>
       (Animator' = Animator /\ el' = el /\ pointer' = pointer)
C21_ReadOnly == [][C21_Step]_vars
C21_Witness ==
  /\ lastOp.op = "analyse"
  /\ ticks = MaxTicks
  /\ voiceData.amplitude > 0
  /\ raycastFrame >= 2
  /\ currentScale > SCALE_IDLE

\* C22: the passive rotation does not depend on the audio level. After
\* every frame the rotation of a run with any voice equals the rotation of
\* the silent run that had the same frame times and speeds, and the frame
\* has advanced it by dt x 0.08 x animationSpeed about y and by
\* dt x 0.03 x animationSpeed about x (dt the frame time capped at 0.1),
\* to within the rounding of the two products.
RotationSlack(speed) == 2 + (speed \div SCALE)
Advanced(by, dt, rate, speed) ==
  /\ (by * 100) * SCALE <= (dt * rate) * speed
  /\ (dt * rate) * speed < ((by + RotationSlack(speed)) * 100) * SCALE
C22_PassiveRotation ==
  (probe.fn = "Twin") =>
    /\ probe.voiced.mesh.rotation = probe.silent.mesh.rotation
    /\ (lastOp.op = "useFrame") =>
         /\ Advanced(probe.voiced.mesh.rotation.y - probe.was.y, probe.dt, 8,
                     probe.store.animationSpeed)
         /\ Advanced(probe.voiced.mesh.rotation.x - probe.was.x, probe.dt, 3,
                     probe.store.animationSpeed)
C22_Witness ==
  /\ probe.fn = "Twin"
  /\ probe.frames = MaxTwinFrames
  /\ lastOp.op = "useFrame"
  /\ probe.store.animationSpeed = Fx(5, 1)
  /\ probe.voiced.currentScale > probe.silent.currentScale
  /\ probe.voiced.mesh.rotation.y > probe.was.y

\* C23: at most one analysis loop exists at any time: whatever calls of
\* startListening, switchMicrophone and stopListening were made, and
\* however they overlapped, at most one analysis tick is scheduled.
Pending == {id \in RafIds : scheduled[id] # 0}
C23_OneLoop == Cardinality(Pending) <= 1

\* C24: a stop made while a start awaits the device is final. In the runs of
\* SpecPending stopListening has run while the call was waiting for
\* getUserMedia, directly before the acquisition settled; whenever the call
\* has finished and no later call was made, no stream with live tracks is
\* held, no analysis tick is scheduled and isListening is false.
FinishedLast(c) == pc[c] = "done" /\ \A b \in Calls : b > c => pc[b] = "idle"
HoldsNothing ==
  /\ \A s \in Calls : tracks[s] # "live"
  /\ ~Ticking
  /\ ~isListening
C24_StopIsFinal == \A c \in Calls : FinishedLast(c) => HoldsNothing

\* C25: the shape parameters stay inside their idle-to-active range and the
\* smoothing never overshoots. With the fields of voiceData in [0,1], after
\* any number of frames distort lies in [0.6, 0.70], surfaceDistort in
\* [1.4, 1.7] and the scale in [0.64, 0.96]; and a frame leaves each of
\* distort, speed, surfaceDistort, surfaceSpeed and the scale between the
\* value it had and the target of that frame.
Within(x, lo, hi) == lo <= x /\ x <= hi
Between(x, from, target) ==
  IF target >= from THEN from <= x /\ x <= target ELSE target <= x /\ x <= from
C25_Range ==
  /\ Within(uniforms.distort, IDLE.distort, ACTIVE.distort)
  /\ Within(uniforms.surfaceDistort, IDLE.surfaceDistort, ACTIVE.surfaceDistort)
  /\ Within(currentScale, SCALE_IDLE, SCALE_ACTIVE)
  /\ (raycastFrame > 0) => (mesh.scale = currentScale)
C25_NoOvershoot ==
  (lastOp'.op = "useFrame") =>
    LET amp == voiceData.amplitude
        speedMult == debugStore.animationSpeed
    IN /\ \A f \in Fields : Within(voiceData[f], 0, SCALE)
       /\ Between(uniforms'.distort, uniforms.distort,
                  Interpolate(IDLE.distort, ACTIVE.distort, amp))
       /\ Between(uniforms'.surfaceDistort, uniforms.surfaceDistort,
                  Interpolate(IDLE.surfaceDistort, ACTIVE.surfaceDistort,
                              Max2(voiceData.midEnergy, voiceData.highEnergy)))
       /\ Between(uniforms'.speed, uniforms.speed,
                  Mul(Interpolate(IDLE.speed, ACTIVE.speed, amp), speedMult))
       /\ Between(uniforms'.surfaceSpeed, uniforms.surfaceSpeed,
                  Mul(Interpolate(IDLE.surfaceSpeed, ACTIVE.surfaceSpeed, amp), speedMult))
       /\ Between(currentScale', currentScale,
                  Interpolate(SCALE_IDLE, SCALE_ACTIVE, amp))
C25_ShapeInRange == []C25_Range /\ [][C25_NoOvershoot]_vars
C25_Witness ==
  /\ lastOp.op = "useFrame"
  /\ voiceData = EMPTY_VOICE_DATA
  /\ uniforms.distort > Fx(65, 100)
  /\ uniforms.distort < Fx(69, 100)
  /\ uniforms.surfaceDistort > Fx(15, 10)
  /\ currentScale > SCALE_IDLE
  /\ currentScale < Fx(9, 10)

====
